---- MODULE Spec2Model ----
(***************************************************************************)
(* Model of morss/crawler.py: the urllib opener built by custom_handler,   *)
(* its handlers (size limit, cache, gzip, encoding fix, http-equiv,        *)
(* refresh), the conditional cache of CacheHandler and the CappedDict      *)
(* storage backend.                                                        *)
(*                                                                         *)
(* Conventions.                                                            *)
(*  - Python's None in an integer slot is the record None; an integer n is *)
(*    Some(n).                                                             *)
(*  - A header block is a sequence of <<name, value>> pairs, as kept by    *)
(*    email.message.Message (Python 3): lookup is case-insensitive (names  *)
(*    are kept lower-case here) and returns the FIRST match; assignment    *)
(*    APPENDS a pair, it does not replace.                                 *)
(*  - A body is a record: id names the content, len is the number of bytes *)
(*    held, z says the bytes are a gzip stream, plain is the number of     *)
(*    bytes the stream inflates to, bad says the bytes contain sequences   *)
(*    that are malformed in the body's character encoding.                 *)
(***************************************************************************)
EXTENDS Integers, Sequences, FiniteSets, TLC

VARIABLES
    cache,          \* default_cache: insertion-ordered sequence of [url, rec]
    CACHE_SIZE,     \* int(os.getenv('CACHE_SIZE', 1000))
    private_cache,  \* CacheHandler.private_cache
    now,            \* time.time()
    ticks,          \* number of clock advances so far
    calls,          \* number of adv_get calls so far
    sets,           \* keys given to CappedDict.__setitem__ directly, in order
    force_min,      \* CacheHandler.force_min of the opener of the current call
    pc,             \* position of the current call in OpenerDirector.open
    idx,            \* index of the next handler in the chain being run
    req,            \* the Request being processed
    resp,           \* the response being processed
    origin,         \* who produced resp: "none", "net", "cache", "409"
    net304,         \* the network answered 304 during the current call
    result,         \* what adv_get's caller observes
    threads,        \* per thread of a server: where it is in its cache operation
    fcall           \* a function applied on its own: its argument and returns

vars == <<cache, CACHE_SIZE, private_cache, threads, fcall, now, ticks,
          calls, sets, force_min, pc, idx, req, resp, origin, net304, result>>

-----------------------------------------------------------------------------
(* Bounds of the model *)

MaxCalls == 2
MaxTicks == 1
MaxSets == 5
MaxRequests == 3
MaxUrlLen == 4

-----------------------------------------------------------------------------
(* Python values *)

None == [some |-> FALSE, v |-> 0]

Some(n) == [some |-> TRUE, v |-> n]

NoValue == "<absent>"

Min(a, b) == IF a < b THEN a ELSE b

Max(a, b) == IF a > b THEN a ELSE b

-----------------------------------------------------------------------------
(* Header blocks: email.message.Message *)

NoHeaders == <<>>

HHas(h, name) == \E i \in 1..Len(h) : h[i][1] = name

HGet(h, name, default) ==
    IF HHas(h, name)
    THEN h[CHOOSE i \in 1..Len(h) :
               /\ h[i][1] = name
               /\ \A j \in 1..(i-1) : h[j][1] # name][2]
    ELSE default

HSet(h, name, value) == Append(h, <<name, value>>)

(* parse_http_list on the header values that occur in the model *)
parse_http_list(v) ==
    CASE v = NoValue              -> <<>>
      [] v = "private, max-age=2" -> <<"private", "max-age=2">>
      [] OTHER                    -> <<v>>

HasEq(tok) == tok \in {"max-age=2"}

(* parse_keqv_list on the tokens that occur in the model: key and value *)
KeqvKey(tok) == "max-age"

KeqvInt(tok) == 2

SeqToSet(s) == {s[i] : i \in 1..Len(s)}

-----------------------------------------------------------------------------
(* Bodies *)

EmptyBody == [id |-> "", len |-> 0, z |-> FALSE, plain |-> 0, bad |-> FALSE]

(* fp.read(n): at most n bytes of the body *)
ReadLimit(b, n) ==
    IF b.len <= n THEN b
    ELSE [b EXCEPT !.len = n,
                   !.plain = IF b.z THEN n * (b.plain \div b.len) ELSE n]

(* UnGzip: zlib.decompressobj(MAX_WBITS | 32).decompress, tolerant of a
   truncated stream: whatever inflates is kept *)
UnGzip(b) == [b EXCEPT !.z = FALSE, !.len = b.plain]

(* data.decode(enc, 'replace').encode(enc): malformed sequences are replaced *)
Recode(b) == [b EXCEPT !.bad = FALSE]

-----------------------------------------------------------------------------
(* CappedDict(OrderedDict, BaseCache): the in-memory backend *)

Keys(d) == [i \in 1..Len(d) |-> d[i].url]

CappedDict_contains(d, key) == \E i \in 1..Len(d) : d[i].url = key

CappedDict_getitem(d, key) == d[CHOOSE i \in 1..Len(d) : d[i].url = key].rec

CappedDict_delitem(d, key) == SelectSeq(d, LAMBDA e : e.url # key)

(* OrderedDict.__setitem__: an existing key keeps its position *)
OrderedDict_setitem(d, key, value) ==
    IF CappedDict_contains(d, key)
    THEN [i \in 1..Len(d) |->
             IF d[i].url = key THEN [url |-> key, rec |-> value] ELSE d[i]]
    ELSE Append(d, [url |-> key, rec |-> value])

(* __setitem__ without the "del self[key]": the key is not re-dated *)
CappedDict_setitem_NoRedate(d, key, value) ==
    OrderedDict_setitem(d, key, value)

CappedDict_setitem(d, key, value) ==
    LET d1 == IF CappedDict_contains(d, key)
              THEN CappedDict_delitem(d, key)
              ELSE d
    IN  OrderedDict_setitem(d1, key, value)

(* popitem(False): drop the oldest entry *)
popitem_first(d) == Tail(d)

RECURSIVE PopTimes(_, _)
PopTimes(d, n) == IF n = 0 THEN d ELSE PopTimes(popitem_first(d), n - 1)

CappedDict_trim(d, size) ==
    IF size >= 0
    THEN PopTimes(d, Max(Len(d) - size, 0))
    ELSE d

-----------------------------------------------------------------------------
(* CacheHandler.load / CacheHandler.save *)

AbsentRecord ==
    [code |-> None, msg |-> NoValue, headers |-> NoHeaders,
     data |-> EmptyBody, timestamp |-> 0]

load(d, url) ==
    IF CappedDict_contains(d, url)
    THEN CappedDict_getitem(d, url)
    ELSE AbsentRecord

save(d, url, code, msg, headers, data, timestamp) ==
    CappedDict_setitem(d, url,
        [code |-> code, msg |-> msg, headers |-> headers,
         data |-> data, timestamp |-> timestamp])

-----------------------------------------------------------------------------
(* The network: what a server may answer *)

URLs == {"u1", "u2"}

KiB == 1024

SmallBody(id) ==
    [id |-> id, len |-> 6, z |-> FALSE, plain |-> 6, bad |-> FALSE]

Feed ==
    [code |-> 200, msg |-> "OK",
     headers |-> << <<"content-type", "application/rss+xml">>,
                    <<"etag", "abc">> >>,
     data |-> SmallBody("rss")]

Gzipped ==
    [code |-> 200, msg |-> "OK",
     headers |-> << <<"content-type", "application/rss+xml">>,
                    <<"content-encoding", "gzip">>,
                    <<"last-modified", "monday">> >>,
     data |-> [id |-> "gzfeed", len |-> 600 * KiB, z |-> TRUE,
               plain |-> 2400 * KiB, bad |-> FALSE]]

NoStore ==
    [code |-> 200, msg |-> "OK",
     headers |-> << <<"cache-control", "no-store">>,
                    <<"etag", "def">>,
                    <<"last-modified", "tuesday">> >>,
     data |-> SmallBody("secret")]

Private ==
    [code |-> 200, msg |-> "OK",
     headers |-> << <<"cache-control", "private, max-age=2">> >>,
     data |-> [id |-> "big", len |-> 800 * KiB, z |-> FALSE,
               plain |-> 800 * KiB, bad |-> FALSE]]

Html ==
    [code |-> 200, msg |-> "OK",
     headers |-> << <<"content-type", "text/html">> >>,
     data |-> [id |-> "html_refresh", len |-> 100, z |-> FALSE,
               plain |-> 100, bad |-> TRUE]]

(* the same page sent with a Location header of its own *)
HtmlLocated ==
    [code |-> 200, msg |-> "OK",
     headers |-> << <<"content-type", "text/html">>,
                    <<"location", "u1">> >>,
     data |-> [id |-> "html_refresh", len |-> 100, z |-> FALSE,
               plain |-> 100, bad |-> TRUE]]

Moved ==
    [code |-> 301, msg |-> "Moved Permanently",
     headers |-> << <<"location", "u2">> >>,
     data |-> EmptyBody]

NotFound ==
    [code |-> 404, msg |-> "Not Found",
     headers |-> << <<"pragma", "no-cache">>, <<"etag", "nf">> >>,
     data |-> SmallBody("notfound")]

Marked ==
    [code |-> 200, msg |-> "OK",
     headers |-> << <<"morss", "from_cache">> >>,
     data |-> SmallBody("marked")]

(* a feed whose server sends a Morss header of its own *)
MorssOther ==
    [code |-> 200, msg |-> "OK",
     headers |-> << <<"content-type", "application/rss+xml">>,
                    <<"etag", "abc">>,
                    <<"morss", "x">> >>,
     data |-> SmallBody("rss")]

NotModified ==
    [code |-> 304, msg |-> "Not Modified",
     headers |-> << <<"etag", "abc">> >>,
     data |-> EmptyBody]

Pages ==
    {Feed, Gzipped, NoStore, Private, Html, Moved, NotFound, Marked,
     NotModified}

(* lxml.html.fromstring(data[:10000]).findall('.//meta[@http-equiv]') on
   the bodies of the model: the (lower-cased name, content) pairs *)
MetaHttpEquiv(b) ==
    IF b.id = "html_refresh" /\ ~b.z
    THEN << <<"refresh", "0;url=u2">> >>
    ELSE <<>>

(* re.search of HTTPRefreshHandler's regex on the values of the model: the
   url group, NoValue when the regex does not match *)
RefreshUrl(v) == IF v = "0;url=u2" THEN "u2" ELSE NoValue

(* MIMETYPE['html'] *)
MIMETYPE_html == {"text/html", "application/xhtml+xml", "application/xml"}

(* value.split('/')[0] on the content types of the model *)
MainType(ct) ==
    CASE ct = "text/html" -> "text"
      [] ct \in {"application/rss+xml", "application/xhtml+xml",
                 "application/xml"} -> "application"
      [] OTHER -> ct

-----------------------------------------------------------------------------
(* The opener: build_opener as called by custom_handler.                   *)
(* OpenerDirector.add_handler keeps, per kind of hook, a list of handlers  *)
(* sorted by handler_order with bisect.insort (ties: insertion order), and *)
(* OpenerDirector.open runs the request hooks, then the open hooks until   *)
(* one answers, then the response hooks, each list from its first element  *)
(* to its last.  Handlers whose hooks touch nothing of the modelled state  *)
(* (cookies, User-Agent, Accept headers) are left out; follow is None, so  *)
(* no AlternateHandler is installed.                                       *)

(* handler_order with CacheHandler placed after the handlers of order 500 *)
handler_order_CacheLate(h) ==
    CASE h = "SizeLimitHandler"   -> 450
      [] h = "CacheHandler"       -> 501
      [] h = "HTTPEquivHandler"   -> 600
      [] h = "HTTPRefreshHandler" -> 700
      [] h = "HTTPErrorProcessor" -> 1000
      [] OTHER                    -> 500

(* handler_order with SizeLimitHandler left at BaseHandler's default *)
handler_order_SizeLimitDefault(h) ==
    CASE h = "CacheHandler"       -> 499
      [] h = "HTTPEquivHandler"   -> 600
      [] h = "HTTPRefreshHandler" -> 700
      [] h = "HTTPErrorProcessor" -> 1000
      [] OTHER                    -> 500

handler_order(h) ==
    CASE h = "SizeLimitHandler"   -> 450
      [] h = "CacheHandler"       -> 499
      [] h = "HTTPEquivHandler"   -> 600
      [] h = "HTTPRefreshHandler" -> 700
      [] h = "HTTPErrorProcessor" -> 1000
      [] OTHER                    -> 500

(* the handlers in the order add_handler receives them: urllib's defaults,
   then the list of custom_handler *)
Handlers ==
    << [name |-> "HTTPHandler",             hooks |-> {"open"}],
       [name |-> "HTTPDefaultErrorHandler", hooks |-> {"error_default"}],
       [name |-> "HTTPRedirectHandler",     hooks |-> {"error_302"}],
       [name |-> "HTTPErrorProcessor",      hooks |-> {"response"}],
       [name |-> "SizeLimitHandler",        hooks |-> {"response"}],
       [name |-> "GZIPHandler",             hooks |-> {"request", "response"}],
       [name |-> "HTTPEquivHandler",        hooks |-> {"response"}],
       [name |-> "HTTPRefreshHandler",      hooks |-> {"response"}],
       [name |-> "EncodingFixHandler",      hooks |-> {"response"}],
       [name |-> "CacheHandler",
        hooks |-> {"request", "open", "response", "error_304"}] >>

(* insort placing a handler before the handlers of its own order *)
insort_Left(chain, h) ==
    LET k == Cardinality({i \in 1..Len(chain) :
                 handler_order(chain[i]) < handler_order(h)})
    IN  SubSeq(chain, 1, k) \o <<h>> \o SubSeq(chain, k + 1, Len(chain))

(* bisect.insort(handlers, handler) with BaseHandler.__lt__ *)
insort(chain, h) ==
    LET k == Cardinality({i \in 1..Len(chain) :
                 ~(handler_order(h) < handler_order(chain[i]))})
    IN  SubSeq(chain, 1, k) \o <<h>> \o SubSeq(chain, k + 1, Len(chain))

RECURSIVE add_handlers(_, _, _)
add_handlers(chain, n, hook) ==
    IF n > Len(Handlers) THEN chain
    ELSE add_handlers(IF hook \in Handlers[n].hooks
                      THEN insort(chain, Handlers[n].name)
                      ELSE chain,
                      n + 1, hook)

process_request == add_handlers(<<>>, 1, "request")

handle_open == add_handlers(<<>>, 1, "open")

process_response == add_handlers(<<>>, 1, "response")

-----------------------------------------------------------------------------
(* Requests, responses, results *)

NoVisits == [u \in URLs |-> 0]

(* Request(url): inm, ims, morss and ae are the unredirected headers
   If-None-Match, If-Modified-Since, Morss and Accept-Encoding; visited is
   HTTPRedirectHandler's redirect_dict (all zero: no such attribute) *)
Request(url, visited) ==
    [url |-> url, inm |-> NoValue, ims |-> NoValue, morss |-> NoValue,
     ae |-> NoValue, visited |-> visited]

NoRequest == Request(NoValue, NoVisits)

(* addinfourl(fp, headers, url, code) with its msg *)
addinfourl(data, headers, url, code, msg) ==
    [code |-> code, msg |-> msg, headers |-> headers, data |-> data,
     url |-> url]

NoResponse == addinfourl(EmptyBody, NoHeaders, NoValue, None, NoValue)

NoResult == [kind |-> "none", code |-> None, data |-> EmptyBody,
             url |-> NoValue]

Is2xx(code) == code.some /\ 200 <= code.v /\ code.v < 300

(* the values custom_handler's delay parameter takes in the model *)
ForceMins == {None, Some(-2), Some(-1), Some(0), Some(2)}

(* seconds by which the clock advances between two calls *)
Deltas == {2, 7*24*3600}

(* SizeLimitHandler(500*1024) *)
SizeLimit == 500 * KiB

-----------------------------------------------------------------------------
(* CacheHandler: the decisions of its hooks *)

(* cache_control of http_open / http_response: the tokens of the
   Cache-Control and Pragma values *)
cache_control(headers) ==
    parse_http_list(HGet(headers, "cache-control", NoValue))
        \o parse_http_list(HGet(headers, "pragma", NoValue))

cc_list(headers) == {x \in SeqToSet(cache_control(headers)) : ~HasEq(x)}

cc_values(headers) == {x \in SeqToSet(cache_control(headers)) : HasEq(x)}

(* 'no-cache' in cc_list or 'no-store' in cc_list
   or ('private' in cc_list and not self.private_cache) *)
forbids_caching(headers, private) ==
    \/ "no-cache" \in cc_list(headers)
    \/ "no-store" \in cc_list(headers)
    \/ ("private" \in cc_list(headers) /\ ~private)

(* 'max-age' in cc_values and int(cc_values['max-age']) > cache_age *)
max_age_holds(headers, cache_age) ==
    \E x \in cc_values(headers) :
        KeqvKey(x) = "max-age" /\ KeqvInt(x) > cache_age

(* http_open without its first branch: the from_304 marker is ignored *)
http_open_decision_NoReplay(morss, fm, rec, cache_age, private) ==
    IF fm = Some(-2) THEN (IF rec.code.some THEN "cache" ELSE "409")
    ELSE IF ~rec.code.some THEN "fetch"
    ELSE IF fm = Some(-1) THEN "cache"
    ELSE IF fm = Some(0) THEN "fetch"
    ELSE IF rec.code = Some(301) /\ cache_age < 7*24*3600 THEN "cache"
    ELSE IF fm = None /\ forbids_caching(rec.headers, private) THEN "fetch"
    ELSE IF max_age_holds(rec.headers, cache_age) THEN "cache"
    ELSE IF fm # None /\ fm.v > cache_age THEN "cache"
    ELSE "fetch"

(* http_open without the force_min == -1 branch: -1 is compared with the
   age like a positive force_min *)
http_open_decision_NoForever(morss, fm, rec, cache_age, private) ==
    IF morss = "from_304" THEN "cache"
    ELSE IF fm = Some(-2) THEN (IF rec.code.some THEN "cache" ELSE "409")
    ELSE IF ~rec.code.some THEN "fetch"
    ELSE IF fm = Some(0) THEN "fetch"
    ELSE IF rec.code = Some(301) /\ cache_age < 7*24*3600 THEN "cache"
    ELSE IF fm = None /\ forbids_caching(rec.headers, private) THEN "fetch"
    ELSE IF max_age_holds(rec.headers, cache_age) THEN "cache"
    ELSE IF fm # None /\ fm.v > cache_age THEN "cache"
    ELSE "fetch"

(* http_open whose force_min == -2 branch falls back to the network instead
   of answering 409 *)
http_open_decision_NoConflict(morss, fm, rec, cache_age, private) ==
    IF morss = "from_304" THEN "cache"
    ELSE IF fm = Some(-2) THEN (IF rec.code.some THEN "cache" ELSE "fetch")
    ELSE IF ~rec.code.some THEN "fetch"
    ELSE IF fm = Some(-1) THEN "cache"
    ELSE IF fm = Some(0) THEN "fetch"
    ELSE IF rec.code = Some(301) /\ cache_age < 7*24*3600 THEN "cache"
    ELSE IF fm = None /\ forbids_caching(rec.headers, private) THEN "fetch"
    ELSE IF max_age_holds(rec.headers, cache_age) THEN "cache"
    ELSE IF fm # None /\ fm.v > cache_age THEN "cache"
    ELSE "fetch"

(* http_open whose last test is force_min >= cache_age *)
http_open_decision_AgeInclusive(morss, fm, rec, cache_age, private) ==
    IF morss = "from_304" THEN "cache"
    ELSE IF fm = Some(-2) THEN (IF rec.code.some THEN "cache" ELSE "409")
    ELSE IF ~rec.code.some THEN "fetch"
    ELSE IF fm = Some(-1) THEN "cache"
    ELSE IF fm = Some(0) THEN "fetch"
    ELSE IF rec.code = Some(301) /\ cache_age < 7*24*3600 THEN "cache"
    ELSE IF fm = None /\ forbids_caching(rec.headers, private) THEN "fetch"
    ELSE IF max_age_holds(rec.headers, cache_age) THEN "cache"
    ELSE IF fm # None /\ fm.v >= cache_age THEN "cache"
    ELSE "fetch"

(* http_open with the test of the server's directives moved before the
   test for a 301 *)
http_open_decision_DirectivesFirst(morss, fm, rec, cache_age, private) ==
    IF morss = "from_304" THEN "cache"
    ELSE IF fm = Some(-2) THEN (IF rec.code.some THEN "cache" ELSE "409")
    ELSE IF ~rec.code.some THEN "fetch"
    ELSE IF fm = Some(-1) THEN "cache"
    ELSE IF fm = Some(0) THEN "fetch"
    ELSE IF fm = None /\ forbids_caching(rec.headers, private) THEN "fetch"
    ELSE IF rec.code = Some(301) /\ cache_age < 7*24*3600 THEN "cache"
    ELSE IF max_age_holds(rec.headers, cache_age) THEN "cache"
    ELSE IF fm # None /\ fm.v > cache_age THEN "cache"
    ELSE "fetch"

(* the if/elif chain of http_open: "cache" where the code passes on to the
   synthesis of a response from the record, "fetch" where it returns None,
   "409" where it returns the synthetic 409 *)
http_open_decision(morss, fm, rec, cache_age, private) ==
    IF morss = "from_304" THEN "cache"
    ELSE IF fm = Some(-2) THEN (IF rec.code.some THEN "cache" ELSE "409")
    ELSE IF ~rec.code.some THEN "fetch"
    ELSE IF fm = Some(-1) THEN "cache"
    ELSE IF fm = Some(0) THEN "fetch"
    ELSE IF rec.code = Some(301) /\ cache_age < 7*24*3600 THEN "cache"
    ELSE IF fm = None /\ forbids_caching(rec.headers, private) THEN "fetch"
    ELSE IF max_age_holds(rec.headers, cache_age) THEN "cache"
    ELSE IF fm # None /\ fm.v > cache_age THEN "cache"
    ELSE "fetch"

(* the response http_open builds from a record with every field swapped
   for that of an empty 200 *)
cache_response_Blank(rec, url) ==
    addinfourl(EmptyBody, HSet(rec.headers, "morss", "from_cache"), url,
               Some(200), "OK")

(* http_open, "return the cache as a response" *)
cache_response(rec, url) ==
    addinfourl(rec.data, HSet(rec.headers, "morss", "from_cache"), url,
               rec.code, rec.msg)

(* http_request sending the ETag as If-Modified-Since and no
   If-None-Match *)
add_conditional_headers_Swapped(r, headers) ==
    [r EXCEPT
     !.ims = IF HHas(headers, "etag")
             THEN HGet(headers, "etag", NoValue) ELSE @]

(* http_request: the two add_unredirected_header calls *)
add_conditional_headers(r, headers) ==
    [r EXCEPT
     !.inm = IF HHas(headers, "etag")
             THEN HGet(headers, "etag", NoValue) ELSE @,
     !.ims = IF HHas(headers, "last-modified")
             THEN HGet(headers, "last-modified", NoValue) ELSE @]

(* http_response without the Cache-Control / Pragma test *)
http_response_saves_IgnoreDirectives(r, fm, private) ==
    IF r.code = Some(304) THEN FALSE
    ELSE IF HGet(r.headers, "morss", NoValue) = "from_cache" THEN FALSE
    ELSE TRUE

(* http_response without the Morss: from_cache test *)
http_response_saves_IgnoreMarker(r, fm, private) ==
    IF r.code = Some(304) THEN FALSE
    ELSE IF /\ (HHas(r.headers, "cache-control") \/ HHas(r.headers, "pragma"))
            /\ fm = None
            /\ forbids_caching(r.headers, private)
         THEN FALSE
    ELSE TRUE

(* http_response: does the hook reach self.save? *)
(* http_response without the early return for 304 *)
http_response_saves_Store304(r, fm, private) ==
    IF /\ (HHas(r.headers, "cache-control") \/ HHas(r.headers, "pragma"))
       /\ fm = None
       /\ forbids_caching(r.headers, private)
    THEN FALSE
    ELSE IF HGet(r.headers, "morss", NoValue) = "from_cache" THEN FALSE
    ELSE TRUE

http_response_saves(r, fm, private) ==
    IF r.code = Some(304) THEN FALSE
    ELSE IF /\ (HHas(r.headers, "cache-control") \/ HHas(r.headers, "pragma"))
            /\ fm = None
            /\ forbids_caching(r.headers, private)
         THEN FALSE
    ELSE IF HGet(r.headers, "morss", NoValue) = "from_cache" THEN FALSE
    ELSE TRUE

-----------------------------------------------------------------------------
(* Initial state: the module has been imported (default_cache is an empty
   CappedDict, CACHE_SIZE has its default, private_cache is the class
   attribute False) and no call has been made *)

(* the state of a thread that is not inside a cache operation *)
IdleThread ==
    [pc |-> "idle", key |-> NoValue, count |-> 0, loaded |-> AbsentRecord]

(* the threads of a server: two request threads and the Timer thread *)
ThreadIds == {"A", "B", "janitor"}

NoThreads == [t \in ThreadIds |-> IdleThread]

NoCall == [fn |-> NoValue, arg |-> <<>>, ret |-> <<>>]

(* one caller, no other thread, no function applied on its own *)
Alone ==
    /\ threads = NoThreads
    /\ fcall = NoCall

Idle ==
    /\ force_min = None
    /\ pc = "idle"
    /\ idx = 1
    /\ req = NoRequest
    /\ resp = NoResponse
    /\ origin = "none"
    /\ net304 = FALSE
    /\ result = NoResult

Init ==
    /\ cache = <<>>
    /\ CACHE_SIZE = 1000
    /\ private_cache = FALSE
    /\ now = 0
    /\ ticks = 0
    /\ calls = 0
    /\ sets = <<>>
    /\ Idle
    /\ Alone

-----------------------------------------------------------------------------
(* adv_get and the passing of time *)

(* adv_get(url, delay=fm): custom_handler builds an opener whose
   CacheHandler has force_min = fm, and opens url with it *)
adv_get(url, fm) ==
    /\ pc \in {"idle", "done"}
    /\ calls < MaxCalls
    /\ calls' = calls + 1
    /\ force_min' = fm
    /\ req' = Request(url, NoVisits)
    /\ pc' = "request"
    /\ idx' = 1
    /\ resp' = NoResponse
    /\ origin' = "none"
    /\ net304' = FALSE
    /\ result' = NoResult
    /\ UNCHANGED <<cache, CACHE_SIZE, private_cache, threads, fcall, now, ticks, sets>>

Tick(d) ==
    /\ pc \in {"idle", "done"}
    /\ ticks < MaxTicks
    /\ ticks' = ticks + 1
    /\ now' = now + d
    /\ UNCHANGED <<cache, CACHE_SIZE, private_cache, threads, fcall, calls, sets, force_min,
                   pc, idx, req, resp, origin, net304, result>>

-----------------------------------------------------------------------------
(* Request hooks *)

AfterRequestHook ==
    IF idx < Len(process_request)
    THEN pc' = "request" /\ idx' = idx + 1
    ELSE pc' = "open" /\ idx' = 1

CacheHandler_http_request ==
    /\ pc = "request"
    /\ process_request[idx] = "CacheHandler"
    /\ req' = add_conditional_headers(req, load(cache, req.url).headers)
    /\ AfterRequestHook
    /\ UNCHANGED <<cache, CACHE_SIZE, private_cache, threads, fcall, now, ticks, calls, sets,
                   force_min, resp, origin, net304, result>>

GZIPHandler_http_request ==
    /\ pc = "request"
    /\ process_request[idx] = "GZIPHandler"
    /\ req' = [req EXCEPT !.ae = "gzip"]
    /\ AfterRequestHook
    /\ UNCHANGED <<cache, CACHE_SIZE, private_cache, threads, fcall, now, ticks, calls, sets,
                   force_min, resp, origin, net304, result>>

-----------------------------------------------------------------------------
(* Open hooks *)

CacheHandler_http_open ==
    /\ pc = "open"
    /\ handle_open[idx] = "CacheHandler"
    /\ LET rec == load(cache, req.url)
           decision == http_open_decision(req.morss, force_min, rec,
                                          now - rec.timestamp, private_cache)
       IN  CASE decision = "cache" ->
                  /\ resp' = cache_response(rec, req.url)
                  /\ origin' = "cache"
                  /\ pc' = "response"
                  /\ idx' = 1
             [] decision = "409" ->
                  /\ resp' = addinfourl(EmptyBody,
                                 HSet(rec.headers, "morss", "from_cache"),
                                 req.url, Some(409), "Conflict")
                  /\ origin' = "409"
                  /\ pc' = "response"
                  /\ idx' = 1
             [] OTHER ->
                  /\ idx' = idx + 1
                  /\ UNCHANGED <<resp, origin, pc>>
    /\ UNCHANGED <<cache, CACHE_SIZE, private_cache, threads, fcall, now, ticks, calls, sets,
                   force_min, req, net304, result>>

(* HTTPHandler.http_open: the server answers with some page *)
HTTPHandler_http_open(page) ==
    /\ pc = "open"
    /\ handle_open[idx] = "HTTPHandler"
    /\ resp' = addinfourl(page.data, page.headers, req.url,
                          Some(page.code), page.msg)
    /\ origin' = "net"
    /\ net304' = (net304 \/ page.code = 304)
    /\ pc' = "response"
    /\ idx' = 1
    /\ UNCHANGED <<cache, CACHE_SIZE, private_cache, threads, fcall, now, ticks, calls, sets,
                   force_min, req, result>>

(* HTTPHandler.http_open: connection refused, DNS failure, timeout *)
HTTPHandler_URLError ==
    /\ pc = "open"
    /\ handle_open[idx] = "HTTPHandler"
    /\ pc' = "done"
    /\ result' = [kind |-> "URLError", code |-> None, data |-> EmptyBody,
                  url |-> req.url]
    /\ UNCHANGED <<cache, CACHE_SIZE, private_cache, threads, fcall, now, ticks, calls, sets,
                   force_min, idx, req, resp, origin, net304>>

-----------------------------------------------------------------------------
(* Response hooks *)

ResponseHook(h) ==
    /\ pc = "response"
    /\ process_response[idx] = h

SizeLimitHandler_http_response ==
    /\ ResponseHook("SizeLimitHandler")
    /\ resp' = [resp EXCEPT !.data = ReadLimit(@, SizeLimit)]
    /\ idx' = idx + 1
    /\ UNCHANGED <<cache, CACHE_SIZE, private_cache, threads, fcall, now, ticks, calls, sets,
                   force_min, pc, req, origin, net304, result>>

CacheHandler_http_response ==
    /\ ResponseHook("CacheHandler")
    /\ cache' = IF http_response_saves(resp, force_min, private_cache)
                THEN save(cache, req.url, resp.code, resp.msg, resp.headers,
                          resp.data, now)
                ELSE cache
    /\ idx' = idx + 1
    /\ UNCHANGED <<CACHE_SIZE, private_cache, threads, fcall, now, ticks, calls, sets,
                   force_min, pc, req, resp, origin, net304, result>>

(* a response whose code is None makes "200 <= resp.code" raise TypeError *)
GZIPHandler_http_response ==
    /\ ResponseHook("GZIPHandler")
    /\ IF ~resp.code.some
       THEN /\ pc' = "done"
            /\ result' = [kind |-> "TypeError", code |-> None,
                          data |-> EmptyBody, url |-> req.url]
            /\ UNCHANGED <<resp, idx>>
       ELSE /\ resp' = IF /\ Is2xx(resp.code)
                          /\ HGet(resp.headers, "content-encoding", NoValue)
                                 = "gzip"
                       THEN [resp EXCEPT
                             !.data = UnGzip(@),
                             !.headers = HSet(@, "content-encoding",
                                              "identity")]
                       ELSE resp
            /\ idx' = idx + 1
            /\ UNCHANGED <<pc, result>>
    /\ UNCHANGED <<cache, CACHE_SIZE, private_cache, threads, fcall, now, ticks, calls, sets,
                   force_min, req, origin, net304>>

EncodingFixHandler_http_response ==
    /\ ResponseHook("EncodingFixHandler")
    /\ resp' = IF /\ Is2xx(resp.code)
                  /\ MainType(HGet(resp.headers, "content-type", "")) = "text"
               THEN [resp EXCEPT !.data = Recode(@)]
               ELSE resp
    /\ idx' = idx + 1
    /\ UNCHANGED <<cache, CACHE_SIZE, private_cache, threads, fcall, now, ticks, calls, sets,
                   force_min, pc, req, origin, net304, result>>

HTTPEquivHandler_http_response ==
    /\ ResponseHook("HTTPEquivHandler")
    /\ resp' = IF /\ Is2xx(resp.code)
                  /\ HGet(resp.headers, "content-type", "") \in MIMETYPE_html
               THEN [resp EXCEPT !.headers = @ \o MetaHttpEquiv(resp.data)]
               ELSE resp
    /\ idx' = idx + 1
    /\ UNCHANGED <<cache, CACHE_SIZE, private_cache, threads, fcall, now, ticks, calls, sets,
                   force_min, pc, req, origin, net304, result>>

HTTPRefreshHandler_http_response ==
    /\ ResponseHook("HTTPRefreshHandler")
    /\ LET url == RefreshUrl(HGet(resp.headers, "refresh", NoValue))
       IN  resp' = IF Is2xx(resp.code) /\ url # NoValue
                   THEN [resp EXCEPT
                         !.code = Some(302),
                         !.msg = "Moved Temporarily",
                         !.headers = HSet(@, "location", url)]
                   ELSE resp
    /\ idx' = idx + 1
    /\ UNCHANGED <<cache, CACHE_SIZE, private_cache, threads, fcall, now, ticks, calls, sets,
                   force_min, pc, req, origin, net304, result>>

(* HTTPErrorProcessor.http_response is the last response hook: a 2xx
   response is what open returns, and adv_get reads it; any other code goes
   to OpenerDirector.error *)
HTTPErrorProcessor_http_response ==
    /\ ResponseHook("HTTPErrorProcessor")
    /\ IF Is2xx(resp.code)
       THEN /\ pc' = "done"
            /\ result' = [kind |-> "ok", code |-> resp.code,
                          data |-> resp.data, url |-> resp.url]
       ELSE /\ pc' = "error"
            /\ UNCHANGED result
    /\ UNCHANGED <<cache, CACHE_SIZE, private_cache, threads, fcall, now, ticks, calls, sets,
                   force_min, idx, req, resp, origin, net304>>

-----------------------------------------------------------------------------
(* Error handlers: OpenerDirector.error calls the http_error_<code> chain,
   then, if every handler returned None, the http_error_default chain *)

RedirectCodes == {301, 302, 303, 307, 308}

CacheHandler_http_error_304 ==
    /\ pc = "error"
    /\ resp.code = Some(304)
    /\ LET rec == load(cache, req.url)
       IN  IF rec.code.some /\ rec.code.v # 0
           THEN /\ cache' = save(cache, req.url, rec.code, rec.msg,
                                 rec.headers, rec.data, now)
                /\ req' = [Request(req.url, NoVisits) EXCEPT
                           !.morss = "from_304"]
                /\ pc' = "request"
                /\ idx' = 1
                /\ resp' = NoResponse
                /\ origin' = "none"
           ELSE /\ pc' = "error_default"
                /\ UNCHANGED <<cache, req, idx, resp, origin>>
    /\ UNCHANGED <<CACHE_SIZE, private_cache, threads, fcall, now, ticks, calls, sets,
                   force_min, net304, result>>

(* HTTPRedirectHandler.http_error_302 (also bound to 301, 303, 307, 308);
   max_repeats is 4 *)
HTTPRedirectHandler_http_error_302 ==
    /\ pc = "error"
    /\ resp.code.v \in RedirectCodes
    /\ LET newurl == HGet(resp.headers, "location", NoValue)
       IN  IF newurl = NoValue
           THEN /\ pc' = "error_default"
                /\ UNCHANGED <<req, idx, resp, origin, result>>
           ELSE IF req.visited[newurl] >= 4
           THEN /\ pc' = "done"
                /\ result' = [kind |-> "HTTPError", code |-> resp.code,
                              data |-> resp.data, url |-> req.url]
                /\ UNCHANGED <<req, idx, resp, origin>>
           ELSE /\ req' = Request(newurl,
                              [req.visited EXCEPT ![newurl] = @ + 1])
                /\ pc' = "request"
                /\ idx' = 1
                /\ resp' = NoResponse
                /\ origin' = "none"
                /\ UNCHANGED result
    /\ UNCHANGED <<cache, CACHE_SIZE, private_cache, threads, fcall, now, ticks, calls, sets,
                   force_min, net304>>

(* HTTPDefaultErrorHandler.http_error_default: raise HTTPError *)
HTTPDefaultErrorHandler_http_error_default ==
    /\ \/ pc = "error_default"
       \/ /\ pc = "error"
          /\ resp.code # Some(304)
          /\ resp.code.v \notin RedirectCodes
    /\ pc' = "done"
    /\ result' = [kind |-> "HTTPError", code |-> resp.code,
                  data |-> resp.data, url |-> req.url]
    /\ UNCHANGED <<cache, CACHE_SIZE, private_cache, threads, fcall, now, ticks, calls, sets,
                   force_min, idx, req, resp, origin, net304>>

-----------------------------------------------------------------------------
(* The fetch pipeline on the shared default cache *)

Next ==
    \/ \E url \in URLs, fm \in ForceMins : adv_get(url, fm)
    \/ \E d \in Deltas : Tick(d)
    \/ CacheHandler_http_request
    \/ GZIPHandler_http_request
    \/ CacheHandler_http_open
    \/ \E page \in Pages : HTTPHandler_http_open(page)
    \/ HTTPHandler_URLError
    \/ SizeLimitHandler_http_response
    \/ CacheHandler_http_response
    \/ GZIPHandler_http_response
    \/ EncodingFixHandler_http_response
    \/ HTTPEquivHandler_http_response
    \/ HTTPRefreshHandler_http_response
    \/ HTTPErrorProcessor_http_response
    \/ CacheHandler_http_error_304
    \/ HTTPRedirectHandler_http_error_302
    \/ HTTPDefaultErrorHandler_http_error_default

Spec == Init /\ [][Next]_vars

-----------------------------------------------------------------------------
(* The capped map on its own: any sequence of item assignments and trims *)

CappedKeys == {"A", "B", "C", "D"}

(* the values of CACHE_SIZE the environment sets in the model *)
CacheSizes == {0, 2, 3}

(* the value stored by the n-th assignment *)
StampedRecord(n) ==
    [code |-> Some(200), msg |-> "OK", headers |-> NoHeaders,
     data |-> EmptyBody, timestamp |-> n]

InitCapped ==
    /\ cache = <<>>
    /\ CACHE_SIZE \in CacheSizes
    /\ private_cache = FALSE
    /\ now = 0
    /\ ticks = 0
    /\ calls = 0
    /\ sets = <<>>
    /\ Idle
    /\ Alone

(* default_cache[key] = value *)
setitem(key) ==
    /\ Len(sets) < MaxSets
    /\ cache' = CappedDict_setitem(cache, key, StampedRecord(Len(sets) + 1))
    /\ sets' = Append(sets, key)
    /\ UNCHANGED <<CACHE_SIZE, private_cache, threads, fcall, now, ticks, calls, force_min,
                   pc, idx, req, resp, origin, net304, result>>

(* default_cache.trim() *)
trim ==
    /\ cache' = CappedDict_trim(cache, CACHE_SIZE)
    /\ UNCHANGED <<CACHE_SIZE, private_cache, threads, fcall, now, ticks, calls, sets,
                   force_min, pc, idx, req, resp, origin, net304, result>>

NextCapped ==
    \/ \E key \in CappedKeys : setitem(key)
    \/ trim

SpecCapped == InitCapped /\ [][NextCapped]_vars

-----------------------------------------------------------------------------
(* C10 *)

(* the position of the last assignment to key in the log of assignments *)
LastSet(log, key) ==
    CHOOSE i \in 0..Len(log) :
        /\ i > 0 => log[i] = key
        /\ \A j \in (i+1)..Len(log) : log[j] # key

(* d holds the most recently assigned keys of log, oldest first, each with
   the value of its last assignment *)
HoldsMostRecent(d, log) ==
    /\ \A i \in 1..Len(d) :
          /\ LastSet(log, d[i].url) > 0
          /\ d[i].rec = StampedRecord(LastSet(log, d[i].url))
    /\ \A i, j \in 1..Len(d) :
          i < j => LastSet(log, d[i].url) < LastSet(log, d[j].url)
    /\ \A key \in SeqToSet(log) :
          ~CappedDict_contains(d, key) =>
              \A i \in 1..Len(d) : LastSet(log, key) < LastSet(log, d[i].url)

(* C10: after any sequence of assignments and trims the capped map holds
   the most recently assigned keys, an assignment to an existing key
   counting as a fresh insertion; a trim leaves min(size, CACHE_SIZE) of
   them, so a trim of a map of size <= CACHE_SIZE changes nothing; an
   assignment adds one entry unless the key was present *)
C10_CappedMapKeepsMostRecent ==
    [][ /\ HoldsMostRecent(cache', sets')
        /\ sets' = sets => Len(cache') = Min(Len(cache), CACHE_SIZE)
        /\ sets' # sets =>
              Len(cache') = Len(cache) +
                  (IF CappedDict_contains(cache, sets'[Len(sets')])
                   THEN 0 ELSE 1)
      ]_vars

(* capacity 3: A, B, A, C, D then trim leaves A, C, D *)
C10_Witness ==
    /\ CACHE_SIZE = 3
    /\ sets = <<"A", "B", "A", "C", "D">>
    /\ Keys(cache) = <<"A", "C", "D">>

-----------------------------------------------------------------------------
(* Properties of the fetch pipeline *)

HasRecord(url) == CappedDict_contains(cache, url)

Stored(url) == load(cache, url)

Records == {cache[i].rec : i \in 1..Len(cache)}

(* the open hook of CacheHandler is the next step *)
AtCacheOpen == pc = "open" /\ handle_open[idx] = "CacheHandler"

(* the response hook of CacheHandler is the next step *)
AtCacheResponse == pc = "response" /\ process_response[idx] = "CacheHandler"

(* the response hook of CacheHandler was the last step *)
PastCacheResponse ==
    /\ pc = "response"
    /\ idx > 1
    /\ process_response[idx - 1] = "CacheHandler"

(* the request hooks have run and the network has not answered yet *)
RequestPrepared == pc = "open"

Directives(headers) == SeqToSet(cache_control(headers))

(* what the response hooks after the cache make of a stored 2xx body *)
AfterLaterHooks(rec) ==
    LET d1 == IF HGet(rec.headers, "content-encoding", NoValue) = "gzip"
              THEN UnGzip(rec.data) ELSE rec.data
    IN  IF MainType(HGet(rec.headers, "content-type", "")) = "text"
        THEN Recode(d1) ELSE d1

-----------------------------------------------------------------------------
(* C1 *)

(* C1 as stated: whenever the network answered 304 during a call, the
   caller observes status 200 and the body stored for the URL *)
C1_Original ==
    (pc = "done" /\ net304) =>
        /\ result.kind = "ok"
        /\ result.code = Some(200)
        /\ result.data = Stored(req.url).data

(* C1 as amended: a 304 for a URL that has a record is never returned; the
   request is replayed with the from_304 marker and the open hook answers
   it from the record, with the stored status code and body, and when the
   replay ends without a redirect the caller observes the stored status
   code and the stored content.  A 304 reaches the caller only as an HTTP
   error, and only for a URL that has no record *)
C1_NotModifiedReplaysRecord ==
    /\ (pc = "response" /\ req.morss = "from_304") =>
          /\ origin = "cache"
          /\ HasRecord(req.url)
          /\ idx = 1 => /\ resp.code = Stored(req.url).code
                        /\ resp.data = Stored(req.url).data
    /\ (pc = "done" /\ req.morss = "from_304" /\ result.kind = "ok") =>
          /\ result.code = Stored(req.url).code
          /\ result.data.id = Stored(req.url).data.id
    /\ (pc = "done" /\ result.code = Some(304)) =>
          /\ result.kind = "HTTPError"
          /\ ~HasRecord(req.url)

C1_Witness ==
    /\ pc = "done"
    /\ net304
    /\ req.morss = "from_304"
    /\ result.kind = "ok"
    /\ result.code = Some(200)
    /\ result.data = SmallBody("rss")

-----------------------------------------------------------------------------
(* C2 *)

(* C2: a request that has left the request hooks carries If-None-Match
   equal to the ETag of the record stored for its URL and If-Modified-Since
   equal to its Last-Modified, and carries neither when the record has no
   such header or no record exists *)
C2_ConditionalHeadersFromRecord ==
    RequestPrepared =>
        LET headers == Stored(req.url).headers
        IN  /\ req.inm = HGet(headers, "etag", NoValue)
            /\ req.ims = HGet(headers, "last-modified", NoValue)
            /\ ~HasRecord(req.url) =>
                  req.inm = NoValue /\ req.ims = NoValue

C2_Witness ==
    /\ RequestPrepared
    /\ HasRecord(req.url)
    /\ req.inm = "def"
    /\ req.ims = "tuesday"

-----------------------------------------------------------------------------
(* C3 *)

(* C3: with force_min = None the response hook of the cache leaves the
   cache as it is when the response's Cache-Control / Pragma carry
   no-store, no-cache, or private while private_cache is off *)
C3_ForbiddenResponseNotSaved ==
    [][ ( /\ AtCacheResponse
          /\ force_min = None
          /\ \/ "no-store" \in Directives(resp.headers)
             \/ "no-cache" \in Directives(resp.headers)
             \/ ("private" \in Directives(resp.headers) /\ ~private_cache) )
        => cache' = cache ]_vars

C3_Witness ==
    /\ PastCacheResponse
    /\ origin = "net"
    /\ force_min = None
    /\ "no-store" \in Directives(resp.headers)
    /\ ~HasRecord(req.url)

-----------------------------------------------------------------------------
(* C4 *)

(* C4: with force_min = -1 the open hook answers from the record whenever
   one exists for the URL, and the network handler is reached only when
   none exists *)
C4_ForeverServesRecord ==
    [][ /\ (AtCacheOpen /\ force_min = Some(-1) /\ HasRecord(req.url)) =>
              /\ pc' = "response"
              /\ origin' = "cache"
              /\ resp'.code = Stored(req.url).code
              /\ resp'.data = Stored(req.url).data
        /\ ( /\ pc' = "open"
             /\ handle_open[idx'] = "HTTPHandler"
             /\ force_min' = Some(-1) ) => ~HasRecord(req'.url)
      ]_vars

C4_Witness ==
    /\ pc = "response"
    /\ idx = 1
    /\ origin = "cache"
    /\ force_min = Some(-1)
    /\ "no-store" \in Directives(Stored(req.url).headers)
    /\ now - Stored(req.url).timestamp >= 7*24*3600
    /\ resp.data = Stored(req.url).data

-----------------------------------------------------------------------------
(* C5 *)

(* C5: with force_min = -2 the open hook answers a URL that has no record
   with a 409 whose body is empty and whose headers carry Morss:
   from_cache, and a URL that has a record from the record; the network
   handler is never reached; the 409 leaves the cache as it is and ends as
   an HTTP error 409 at the caller *)
C5_CacheOnlyConflict ==
    [][ /\ (AtCacheOpen /\ force_min = Some(-2)) =>
              /\ pc' = "response"
              /\ IF HasRecord(req.url)
                 THEN /\ origin' = "cache"
                      /\ resp'.code = Stored(req.url).code
                      /\ resp'.data = Stored(req.url).data
                 ELSE /\ origin' = "409"
                      /\ resp'.code = Some(409)
                      /\ resp'.data = EmptyBody
                      /\ HGet(resp'.headers, "morss", NoValue) = "from_cache"
        /\ force_min' = Some(-2) => origin' # "net"
        /\ (origin = "409" /\ pc # "done") =>
              /\ cache' = cache
              /\ pc' = "done" =>
                    /\ result'.kind = "HTTPError"
                    /\ result'.code = Some(409)
      ]_vars

C5_Witness ==
    /\ pc = "done"
    /\ origin = "409"
    /\ force_min = Some(-2)
    /\ result.kind = "HTTPError"
    /\ result.code = Some(409)
    /\ ~HasRecord(req.url)

-----------------------------------------------------------------------------
(* C6 *)

-----------------------------------------------------------------------------
(* C7 *)

(* C7 as stated: every stored body is decompressed and no stored
   Content-Encoding is anything but identity *)
C7_Original ==
    \A rec \in Records :
        /\ ~rec.data.z
        /\ HGet(rec.headers, "content-encoding", "identity") = "identity"

(* C7 as amended: the cache hook runs before the gzip hook, so a record
   holds the body as the size limit left it, a gzip stream exactly when its
   stored Content-Encoding is gzip, and no stored header block carries the
   identity value the gzip hook adds; the body is inflated after the cache,
   so that what the caller receives is never a gzip stream *)
C7_RecordsHoldUndecodedBody ==
    /\ \A rec \in Records :
          /\ rec.data.z <=>
                HGet(rec.headers, "content-encoding", NoValue) = "gzip"
          /\ <<"content-encoding", "identity">> \notin SeqToSet(rec.headers)
    /\ (pc = "done" /\ result.kind = "ok") => ~result.data.z

C7_Witness ==
    /\ pc = "done"
    /\ origin = "net"
    /\ result.kind = "ok"
    /\ result.data.id = "gzfeed"
    /\ ~result.data.z
    /\ Stored(req.url).data.z
    /\ HGet(Stored(req.url).headers, "content-encoding", NoValue) = "gzip"

-----------------------------------------------------------------------------
(* C8 *)

(* C8: the body of every stored record is at most SizeLimit bytes long *)
C8_StoredBodyWithinLimit ==
    \A rec \in Records : rec.data.len <= SizeLimit

C8_Witness ==
    \E rec \in Records : rec.data.id = "big" /\ rec.data.len = SizeLimit

-----------------------------------------------------------------------------
(* C9 *)

(* C9: no stored header block carries Morss: from_cache *)
C9_MarkerNeverStored ==
    \A rec \in Records :
        \A i \in 1..Len(rec.headers) :
            rec.headers[i] # <<"morss", "from_cache">>

C9_Witness ==
    /\ pc = "done"
    /\ net304
    /\ origin = "cache"
    /\ HGet(resp.headers, "morss", NoValue) = "from_cache"
    /\ HasRecord(req.url)
    /\ Stored(req.url).timestamp = now
    /\ now > 0

-----------------------------------------------------------------------------
(* SQLiteCache / MySQLCacheHandler: the table data(url PRIMARY KEY, code,   *)
(* msg, headers, data, timestamp), kept in cache as the sequence of its     *)
(* rows.  Both backends run the same two statements.                        *)

(* INSERT INTO data VALUES (...) ON CONFLICT(url) DO UPDATE SET ... :
   the row of url is updated where it is, a new url gets a new row *)
SQL_upsert(d, url, value) == OrderedDict_setitem(d, url, value)

(* SELECT timestamp FROM data ORDER BY timestamp DESC LIMIT 1 OFFSET off:
   the timestamp of the row that off rows precede in descending order of
   timestamp, NULL (None) when the table has no more than off rows *)
SQL_offset_timestamp(d, off) ==
    IF Len(d) <= off THEN None
    ELSE Some(CHOOSE t \in {d[i].rec.timestamp : i \in 1..Len(d)} :
             /\ Cardinality({i \in 1..Len(d) : d[i].rec.timestamp > t}) <= off
             /\ Cardinality({i \in 1..Len(d) : d[i].rec.timestamp >= t}) > off)

(* DELETE FROM data WHERE timestamp <= ( SELECT ... OFFSET size ):
   a comparison with NULL is not true, so nothing is deleted then *)
SQL_trim(d, size) ==
    LET t == SQL_offset_timestamp(d, size)
    IN  IF t.some
        THEN SelectSeq(d, LAMBDA row : ~(row.rec.timestamp <= t.v))
        ELSE d

(* SQLiteCache(): the table is created empty, then trimmed *)
InitSQL ==
    /\ cache = SQL_trim(<<>>, 0)
    /\ CACHE_SIZE \in CacheSizes
    /\ private_cache = FALSE
    /\ now = 0
    /\ ticks = 0
    /\ calls = 0
    /\ sets = <<>>
    /\ Idle
    /\ Alone

(* default_cache[url] = (code, msg, headers, data, time.time()), as
   CacheHandler.save calls it *)
SQLiteCache_setitem(url) ==
    /\ Len(sets) < MaxSets
    /\ cache' = SQL_upsert(cache, url, StampedRecord(now))
    /\ sets' = Append(sets, url)
    /\ UNCHANGED <<CACHE_SIZE, private_cache, threads, fcall, now, ticks,
                   calls, force_min, pc, idx, req, resp, origin, net304,
                   result>>

(* default_cache.trim() *)
SQLiteCache_trim ==
    /\ cache' = SQL_trim(cache, CACHE_SIZE)
    /\ UNCHANGED <<CACHE_SIZE, private_cache, threads, fcall, now, ticks,
                   calls, sets, force_min, pc, idx, req, resp, origin,
                   net304, result>>

NextSQL ==
    \/ \E url \in CappedKeys : SQLiteCache_setitem(url)
    \/ SQLiteCache_trim
    \/ \E d \in Deltas : Tick(d)

SpecSQL == InitSQL /\ [][NextSQL]_vars

-----------------------------------------------------------------------------
(* C11 *)

Timestamps(d) == [i \in 1..Len(d) |-> d[i].rec.timestamp]

(* a step of SpecSQL that is a trim: no assignment, no clock advance *)
IsTrimStep == sets' = sets /\ ticks' = ticks

(* C11 as stated: a trim of the SQL table leaves min(n, CACHE_SIZE) rows,
   and every row it leaves is at least as recent as every row it deletes,
   whatever the timestamps, shared ones included *)
C11_Original ==
    [][ IsTrimStep =>
          /\ Len(cache') = Min(Len(cache), CACHE_SIZE)
          /\ \A i \in 1..Len(cache) :
                ~CappedDict_contains(cache', cache[i].url) =>
                    \A j \in 1..Len(cache') :
                        cache'[j].rec.timestamp >= cache[i].rec.timestamp
      ]_vars

(* three urls were assigned, the last at a later second than the first two,
   and a trim to capacity 2 has left two rows *)
C11_Witness ==
    /\ CACHE_SIZE = 2
    /\ Cardinality(SeqToSet(sets)) = 3
    /\ Len(sets) = 3
    /\ Len(cache) = 2
    /\ Timestamps(cache) = <<2, 2>>

-----------------------------------------------------------------------------
(* Several threads on the shared default_cache (a CappedDict).  Each       *)
(* request thread runs CacheHandler.load in its open hook and              *)
(* CacheHandler.save in its response hook; the Timer thread runs           *)
(* BaseCache.autotrim.  A step is one operation of the dict (a lookup, a   *)
(* membership test, a del, an insertion, a popitem): the interpreter may   *)
(* switch threads between any two of them, and nothing in CappedDict takes *)
(* a lock.                                                                 *)

RequestThreads == {"A", "B"}

(* the values of CACHE_SIZE the environment sets for the server *)
ThreadCacheSizes == {0, 1, 2}

(* the janitor has been started: default_cache.autotrim() was called at
   startup, on a thread of its own *)
JanitorStarted == [IdleThread EXCEPT !.pc = "autotrim"]

InitThreads ==
    /\ cache = <<>>
    /\ CACHE_SIZE \in ThreadCacheSizes
    /\ private_cache = FALSE
    /\ now = 0
    /\ ticks = 0
    /\ calls = 0
    /\ sets = <<>>
    /\ Idle
    /\ threads = [NoThreads EXCEPT !["janitor"] = JanitorStarted]
    /\ fcall = NoCall

OnlyThreads ==
    UNCHANGED <<CACHE_SIZE, private_cache, fcall, now, ticks, force_min, pc,
                idx, req, resp, origin, net304, result>>

(* a request for url arrives on thread t; a thread whose last request
   failed with KeyError takes the next one *)
thread_request(t, url) ==
    /\ threads[t].pc \in {"idle", "KeyError"}
    /\ calls < MaxRequests
    /\ calls' = calls + 1
    /\ threads' = [threads EXCEPT ![t] =
                      [IdleThread EXCEPT !.pc = "load", !.key = url]]
    /\ UNCHANGED <<cache, sets>>
    /\ OnlyThreads

(* CacheHandler.load in http_open: out = list(self.cache[url]), with the
   absent record on KeyError *)
thread_load(t) ==
    /\ threads[t].pc = "load"
    /\ threads' = [threads EXCEPT ![t].loaded = load(cache, threads[t].key),
                                  ![t].pc = "contains"]
    /\ UNCHANGED <<cache, sets, calls>>
    /\ OnlyThreads

(* CacheHandler.save in http_response, CappedDict.__setitem__:
   "if key in self" *)
thread_setitem_contains(t) ==
    /\ threads[t].pc = "contains"
    /\ threads' = [threads EXCEPT ![t].pc =
                      IF CappedDict_contains(cache, threads[t].key)
                      THEN "delete" ELSE "insert"]
    /\ UNCHANGED <<cache, sets, calls>>
    /\ OnlyThreads

(* CappedDict.__setitem__: "del self[key]"; KeyError when the key is gone *)
thread_setitem_del(t) ==
    /\ threads[t].pc = "delete"
    /\ IF CappedDict_contains(cache, threads[t].key)
       THEN /\ cache' = CappedDict_delitem(cache, threads[t].key)
            /\ threads' = [threads EXCEPT ![t].pc = "insert"]
       ELSE /\ cache' = cache
            /\ threads' = [threads EXCEPT ![t].pc = "KeyError"]
    /\ UNCHANGED <<sets, calls>>
    /\ OnlyThreads

(* CappedDict.__setitem__: "OrderedDict.__setitem__(self, key, value)";
   the value is named by the position of the insertion among all
   insertions *)
thread_setitem_insert(t) ==
    /\ threads[t].pc = "insert"
    /\ cache' = OrderedDict_setitem(cache, threads[t].key,
                                    StampedRecord(Len(sets) + 1))
    /\ sets' = Append(sets, threads[t].key)
    /\ threads' = [threads EXCEPT ![t] = IdleThread]
    /\ UNCHANGED calls
    /\ OnlyThreads

(* BaseCache.autotrim calls self.trim(); CappedDict.trim evaluates
   range(max(len(self) - CACHE_SIZE, 0)) once *)
janitor_trim_range ==
    /\ threads["janitor"].pc = "autotrim"
    /\ threads' = [threads EXCEPT
                   !["janitor"].pc = "popitem",
                   !["janitor"].count =
                       IF CACHE_SIZE >= 0
                       THEN Max(Len(cache) - CACHE_SIZE, 0)
                       ELSE 0]
    /\ UNCHANGED <<cache, sets, calls>>
    /\ OnlyThreads

(* CappedDict.trim: one "self.popitem(False)" of the loop; KeyError when
   the dict is empty, which ends autotrim before it arms the next Timer *)
janitor_trim_popitem ==
    /\ threads["janitor"].pc = "popitem"
    /\ threads["janitor"].count > 0
    /\ IF cache # <<>>
       THEN /\ cache' = popitem_first(cache)
            /\ threads' = [threads EXCEPT !["janitor"].count = @ - 1]
       ELSE /\ cache' = cache
            /\ threads' = [threads EXCEPT !["janitor"].pc = "KeyError",
                                          !["janitor"].count = 0]
    /\ UNCHANGED <<sets, calls>>
    /\ OnlyThreads

(* BaseCache.autotrim after trim: t = threading.Timer(delay, self.autotrim);
   t.daemon = True; t.start() *)
janitor_arm_timer ==
    /\ threads["janitor"].pc = "popitem"
    /\ threads["janitor"].count = 0
    /\ threads' = [threads EXCEPT !["janitor"].pc = "timer"]
    /\ UNCHANGED <<cache, sets, calls>>
    /\ OnlyThreads

(* the Timer expires and calls self.autotrim *)
janitor_timer_expires ==
    /\ threads["janitor"].pc = "timer"
    /\ threads' = [threads EXCEPT !["janitor"].pc = "autotrim"]
    /\ UNCHANGED <<cache, sets, calls>>
    /\ OnlyThreads

ThreadStep(t) ==
    \/ thread_load(t)
    \/ thread_setitem_contains(t)
    \/ thread_setitem_del(t)
    \/ thread_setitem_insert(t)

JanitorStep ==
    \/ janitor_trim_range
    \/ janitor_trim_popitem
    \/ janitor_arm_timer
    \/ janitor_timer_expires

NextThreads ==
    \/ \E t \in RequestThreads, url \in URLs : thread_request(t, url)
    \/ \E t \in RequestThreads : thread_load(t)
    \/ \E t \in RequestThreads : thread_setitem_contains(t)
    \/ \E t \in RequestThreads : thread_setitem_del(t)
    \/ \E t \in RequestThreads : thread_setitem_insert(t)
    \/ janitor_trim_range
    \/ janitor_trim_popitem
    \/ janitor_arm_timer
    \/ janitor_timer_expires

(* every thread that can take a step is scheduled eventually, and a Timer
   that was started expires *)
SpecThreads ==
    /\ InitThreads
    /\ [][NextThreads]_vars
    /\ \A t \in RequestThreads : WF_vars(ThreadStep(t))
    /\ WF_vars(JanitorStep)

-----------------------------------------------------------------------------
(* C12 *)

(* C12 as stated: trim is invoked again and again, and whenever the cache
   holds more than CACHE_SIZE records it is brought back to at most
   CACHE_SIZE *)
C12_Original ==
    /\ []<>(threads["janitor"].pc = "autotrim")
    /\ (Len(cache) > CACHE_SIZE) ~> (Len(cache) <= CACHE_SIZE)

(* two urls were stored with capacity 1, a pass of the janitor has dropped
   the older one and has armed the next Timer *)
C12_Witness ==
    /\ CACHE_SIZE = 1
    /\ Cardinality(SeqToSet(sets)) = 2
    /\ Keys(cache) = <<sets[Len(sets)]>>
    /\ threads["janitor"].pc = "timer"

-----------------------------------------------------------------------------
(* C13 *)

(* C13 as stated: in every interleaving no operation on the shared capped
   map ends in KeyError, and a popitem of trim only ever runs while the map
   holds more than CACHE_SIZE entries *)
C13_Original ==
    [][ /\ \A t \in ThreadIds : threads'[t].pc # "KeyError"
        /\ (threads'["janitor"].count < threads["janitor"].count
              /\ Len(cache') < Len(cache)) => Len(cache) > CACHE_SIZE
      ]_vars

(* both request threads have stored a url and a trim has run to its end *)
C13_Witness ==
    /\ Len(sets) = 2
    /\ \A t \in RequestThreads : threads[t].pc = "idle"
    /\ threads["janitor"].pc = "timer"
    /\ Len(cache) = Min(2, CACHE_SIZE)
    /\ Cardinality(SeqToSet(sets)) = 2

-----------------------------------------------------------------------------
(* C14 *)

(* no trim can evict: the capacity covers every url *)
NothingEvicted == CACHE_SIZE >= Cardinality(URLs)

(* C14 as stated: a load of a url that has been written returns the last
   complete record written for it, whether or not another thread is in the
   middle of writing the url: the record of the write that ended before the
   load, never a missing one *)
C14_Original ==
    [][ \A t \in RequestThreads :
          ( /\ threads[t].pc = "load"
            /\ threads'[t].pc = "contains"
            /\ NothingEvicted
            /\ LastSet(sets, threads[t].key) > 0 )
          => threads'[t].loaded = StampedRecord(LastSet(sets, threads[t].key))
      ]_vars

(* B's load has returned the record A wrote before it *)
C14_Witness ==
    /\ NothingEvicted
    /\ threads["A"].pc = "idle"
    /\ threads["B"].pc = "contains"
    /\ sets = <<threads["B"].key>>
    /\ threads["B"].loaded = StampedRecord(1)

-----------------------------------------------------------------------------
(* The open hook of the cache on its own: it is entered with any request,  *)
(* any force_min, either setting of private_cache, and a cache that holds  *)
(* no record for the url or one that an earlier response hook stored.      *)

(* a permanent redirect that the server asks not to be cached *)
MovedNoCache ==
    [code |-> 301, msg |-> "Moved Permanently",
     headers |-> << <<"location", "u2">>, <<"cache-control", "no-cache">> >>,
     data |-> EmptyBody]

(* the pages the response hook can have stored: never a 304, never one
   that carries Morss: from_cache *)
StorablePages == {page \in Pages \cup {MovedNoCache} : http_response_saves(
                     addinfourl(page.data, page.headers, "u1",
                                Some(page.code), page.msg), Some(0), FALSE)}

(* time.time() - timestamp when the hook runs, in seconds *)
CacheAges == {0, 1, 2, 3, 7*24*3600 - 1, 7*24*3600}

InitOpen ==
    /\ \/ cache = <<>>
       \/ \E page \in StorablePages :
             cache = save(<<>>, "u1", Some(page.code), page.msg,
                          page.headers, ReadLimit(page.data, SizeLimit), 0)
    /\ CACHE_SIZE = 1000
    /\ private_cache \in BOOLEAN
    /\ now \in CacheAges
    /\ ticks = 0
    /\ calls = 1
    /\ sets = <<>>
    /\ force_min \in ForceMins
    /\ pc = "open"
    /\ idx = 1
    /\ \E morss \in {NoValue, "from_304"} :
          req = [Request("u1", NoVisits) EXCEPT !.morss = morss]
    /\ resp = NoResponse
    /\ origin = "none"
    /\ net304 = FALSE
    /\ result = NoResult
    /\ Alone

NextOpen == CacheHandler_http_open

SpecOpen == InitOpen /\ [][NextOpen]_vars

(* what the open hook has just decided *)
OpenOutcome ==
    IF pc' = "response"
    THEN (IF origin' = "409" THEN "409" ELSE "cache")
    ELSE "fetch"

(* the hook returned None: the next open handler is tried *)
OpenReturnedNone == pc' = "open" /\ idx' = idx + 1 /\ resp' = resp

CacheAge == now - Stored(req.url).timestamp

(* the N of every stored max-age=N *)
StoredMaxAges ==
    {KeqvInt(x) : x \in {y \in Directives(Stored(req.url).headers) :
                           HasEq(y) /\ KeqvKey(y) = "max-age"}}

-----------------------------------------------------------------------------
(* C15 *)

PositiveForceMin == force_min.some /\ force_min.v > 0

(* C15 as stated, where no other rule of the hook applies (an ordinary
   request, a record that is not a 301 and carries no max-age): the cache
   is used if the age is <= force_min, the network otherwise *)
C15_Original ==
    [][ ( /\ AtCacheOpen
          /\ PositiveForceMin
          /\ HasRecord(req.url)
          /\ req.morss # "from_304"
          /\ Stored(req.url).code # Some(301)
          /\ StoredMaxAges = {} )
        => IF CacheAge <= force_min.v
           THEN OpenOutcome = "cache"
           ELSE OpenOutcome = "fetch" ]_vars

(* C15 as amended: with a positive force_min and a record present, an
   ordinary request is answered from the cache exactly when the age is
   strictly below force_min, or the record is a 301 younger than 7 days, or
   a stored max-age is above the age; otherwise the hook returns None and
   the network is asked.  A request replayed after a 304 is always answered
   from the record *)
C15_PositiveForceMin ==
    [][ (AtCacheOpen /\ PositiveForceMin /\ HasRecord(req.url)) =>
          /\ OpenOutcome = "cache" <=>
                \/ req.morss = "from_304"
                \/ CacheAge < force_min.v
                \/ (Stored(req.url).code = Some(301)
                      /\ CacheAge < 7*24*3600)
                \/ \E n \in StoredMaxAges : n > CacheAge
          /\ OpenOutcome = "cache" =>
                /\ resp'.data = Stored(req.url).data
                /\ resp'.code = Stored(req.url).code
          /\ OpenOutcome # "cache" => OpenReturnedNone
      ]_vars

(* a record exactly force_min seconds old was not used *)
C15_Witness ==
    /\ pc = "open"
    /\ idx = 2
    /\ force_min = Some(2)
    /\ HasRecord(req.url)
    /\ CacheAge = 2
    /\ Stored(req.url).code = Some(200)
    /\ StoredMaxAges = {}
    /\ req.morss = NoValue

-----------------------------------------------------------------------------
(* C19 *)

(* the ten steps of the decision tree, in order: when a step applies, and
   what it decides *)
C19_Steps ==
    LET present == HasRecord(req.url)
        dirs == Directives(Stored(req.url).headers)
    IN  << [when |-> req.morss = "from_304", then |-> "cache"],
           [when |-> force_min = Some(-2),
            then |-> IF present THEN "cache" ELSE "409"],
           [when |-> ~present, then |-> "fetch"],
           [when |-> force_min = Some(-1), then |-> "cache"],
           [when |-> force_min = Some(0), then |-> "fetch"],
           [when |-> Stored(req.url).code = Some(301)
                       /\ CacheAge < 7*24*3600,
            then |-> "cache"],
           [when |-> /\ force_min = None
                     /\ \/ "no-cache" \in dirs
                        \/ "no-store" \in dirs
                        \/ ("private" \in dirs /\ ~private_cache),
            then |-> "fetch"],
           [when |-> \E n \in StoredMaxAges : CacheAge < n,
            then |-> "cache"],
           [when |-> PositiveForceMin /\ CacheAge < force_min.v,
            then |-> "cache"],
           [when |-> TRUE, then |-> "fetch"] >>

(* the number of the first step that applies *)
C19_FirstStep ==
    CHOOSE i \in 1..Len(C19_Steps) :
        /\ C19_Steps[i].when
        /\ \A j \in 1..(i-1) : ~C19_Steps[j].when

(* C19: whatever the marker, force_min, the record, its age, its stored
   directives and private_cache, the open hook decides what the first
   applicable step of the ten-step tree decides *)
C19_OpenHookFollowsTree ==
    [][ AtCacheOpen => OpenOutcome = C19_Steps[C19_FirstStep].then ]_vars

(* step 8 decided: a private record with max-age=2, one second old, served
   by an end-user cache that honours the server's directives *)
C19_Witness ==
    /\ pc = "response"
    /\ origin = "cache"
    /\ force_min = None
    /\ private_cache
    /\ "private" \in Directives(Stored(req.url).headers)
    /\ CacheAge = 1
    /\ req.morss = NoValue

-----------------------------------------------------------------------------
(* The fetch pipeline against a site that answers with a feed, with an     *)
(* HTML page that carries a meta refresh (with or without a Location       *)
(* header of its own), or with 304                                         *)

RefreshPages == {Feed, Html, HtmlLocated, NotModified}

NextRefresh ==
    \/ \E url \in URLs, fm \in ForceMins : adv_get(url, fm)
    \/ \E d \in Deltas : Tick(d)
    \/ CacheHandler_http_request
    \/ GZIPHandler_http_request
    \/ CacheHandler_http_open
    \/ \E page \in RefreshPages : HTTPHandler_http_open(page)
    \/ HTTPHandler_URLError
    \/ SizeLimitHandler_http_response
    \/ CacheHandler_http_response
    \/ GZIPHandler_http_response
    \/ EncodingFixHandler_http_response
    \/ HTTPEquivHandler_http_response
    \/ HTTPRefreshHandler_http_response
    \/ HTTPErrorProcessor_http_response
    \/ CacheHandler_http_error_304
    \/ HTTPRedirectHandler_http_error_302
    \/ HTTPDefaultErrorHandler_http_error_default

SpecRefresh == Init /\ [][NextRefresh]_vars

-----------------------------------------------------------------------------
(* C16 *)

(* the url of the <meta http-equiv="Refresh"> of an HTML response, NoValue
   when it has none *)
MetaRefreshTarget(r) ==
    IF HGet(r.headers, "content-type", "") \in MIMETYPE_html
    THEN RefreshUrl(HGet(MetaHttpEquiv(r.data), "refresh", NoValue))
    ELSE NoValue

(* C16 as stated: a 2xx HTML response with a meta refresh, from the network
   or from the cache, is turned into a redirect, the redirect is followed
   to the target of the meta refresh, the caller never receives the HTML
   itself, and the record stored for the HTML is the original 2xx
   response *)
C16_Original ==
    [][ /\ ( /\ ResponseHook("HTTPRefreshHandler")
             /\ Is2xx(resp.code)
             /\ MetaRefreshTarget(resp) # NoValue )
           => ~Is2xx(resp'.code)
        /\ ( /\ pc = "error"
             /\ resp.code = Some(302)
             /\ MetaRefreshTarget(resp) # NoValue
             /\ pc' = "request" )
           => req'.url = MetaRefreshTarget(resp)
        /\ (pc' = "done" /\ result'.kind = "ok")
           => result'.data.id # "html_refresh"
        /\ \A i \in 1..Len(cache') :
              cache'[i].rec.data.id = "html_refresh"
                  => Is2xx(cache'[i].rec.code)
      ]_vars

(* a call that may not touch the network was given the stored HTML of u1,
   followed its meta refresh and returned the stored body of u2 *)
C16_Witness ==
    /\ pc = "done"
    /\ force_min = Some(-2)
    /\ result.kind = "ok"
    /\ result.url = "u2"
    /\ result.data = SmallBody("rss")
    /\ req.visited["u2"] = 1
    /\ Stored("u1").data.id = "html_refresh"
    /\ MetaRefreshTarget(Stored("u1")) = "u2"
    /\ HGet(Stored("u1").headers, "location", NoValue) = NoValue

-----------------------------------------------------------------------------
(* sanitize_url.  A string is a sequence of characters; the characters of   *)
(* the model are "/", ":", "?", "#", " ", the letter "x", the non-ASCII     *)
(* letter "e_acute", and "http" and "https", which stand for those letters  *)
(* in a row.  The escapes the function produces are characters of their     *)
(* own: "%20", "%C3%A9", ...; "xn--" and "9ca" are the prefix and the       *)
(* encoded tail of an IDNA label.                                           *)

UrlChars == {"http", ":", "/", " ", "e_acute", "x", "?", "#"}

PROTOCOL == {<<"http">>, <<"https">>}

(* s.find(c): the first position of c in s, 0 when there is none *)
Find(s, c) ==
    IF \E i \in 1..Len(s) : s[i] = c
    THEN CHOOSE i \in 1..Len(s) : s[i] = c /\ \A j \in 1..(i-1) : s[j] # c
    ELSE 0

(* s[a-1:b] of Python: the characters at positions a..b that exist *)
Slice(s, a, b) ==
    LET last == IF b < Len(s) THEN b ELSE Len(s)
    IN  IF last < a THEN <<>> ELSE [i \in 1..(last - a + 1) |-> s[i + a - 1]]

(* s[i-1:] of Python *)
From(s, i) == Slice(s, i, Len(s))

(* url.split(':', 1)[0] *)
BeforeColon(url) ==
    IF Find(url, ":") = 0 THEN url ELSE Slice(url, 1, Find(url, ":") - 1)

(* if url.split(':', 1)[0] not in PROTOCOL: url = 'http://' + url *)
add_protocol(url) ==
    IF BeforeColon(url) \in PROTOCOL
    THEN url
    ELSE <<"http", ":", "/", "/">> \o url

(* re.sub('^(https?):/([^/])', r'\1://\2', url) *)
fix_single_slash(url) ==
    IF /\ Len(url) >= 4
       /\ url[1] \in {"http", "https"}
       /\ url[2] = ":"
       /\ url[3] = "/"
       /\ url[4] # "/"
    THEN <<url[1], ":", "/", "/">> \o From(url, 4)
    ELSE url

(* url.replace(' ', '%20') *)
escape_spaces(url) ==
    [i \in 1..Len(url) |-> IF url[i] = " " THEN "%20" ELSE url[i]]

(* the characters urlsplit accepts in a scheme, and as its first character *)
scheme_chars == {"http", "https", "x", "xn--", "9ca"}

scheme_first == {"http", "https", "x", "xn--"}

(* urllib.parse.urlparse: (scheme, netloc, path, params, query, fragment);
   no string of the model holds a ';', so params is empty *)
urlparse(url) ==
    LET i == Find(url, ":")
        has_scheme == /\ i > 1
                      /\ url[1] \in scheme_first
                      /\ \A k \in 1..(i-1) : url[k] \in scheme_chars
        scheme == IF has_scheme THEN Slice(url, 1, i - 1) ELSE <<>>
        u1 == IF has_scheme THEN From(url, i + 1) ELSE url
        has_netloc == Len(u1) >= 2 /\ u1[1] = "/" /\ u1[2] = "/"
        delim == IF \E k \in 3..Len(u1) : u1[k] \in {"/", "?", "#"}
                 THEN CHOOSE k \in 3..Len(u1) :
                         /\ u1[k] \in {"/", "?", "#"}
                         /\ \A j \in 3..(k-1) : u1[j] \notin {"/", "?", "#"}
                 ELSE Len(u1) + 1
        netloc == IF has_netloc THEN Slice(u1, 3, delim - 1) ELSE <<>>
        u2 == IF has_netloc THEN From(u1, delim) ELSE u1
        h == Find(u2, "#")
        fragment == IF h > 0 THEN From(u2, h + 1) ELSE <<>>
        u3 == IF h > 0 THEN Slice(u2, 1, h - 1) ELSE u2
        q == Find(u3, "?")
        query == IF q > 0 THEN From(u3, q + 1) ELSE <<>>
        path == IF q > 0 THEN Slice(u3, 1, q - 1) ELSE u3
    IN  [scheme |-> scheme, netloc |-> netloc, path |-> path,
         params |-> <<>>, query |-> query, fragment |-> fragment]

(* urllib.parse.uses_netloc, as far as the schemes of the model go *)
uses_netloc == {<<"http">>, <<"https">>}

(* urllib.parse.urlunparse *)
urlunparse(parts) ==
    LET url0 == parts.path
        url1 == IF \/ parts.netloc # <<>>
                   \/ /\ parts.scheme # <<>>
                      /\ parts.scheme \in uses_netloc
                      /\ Slice(url0, 1, 2) # <<"/", "/">>
                THEN <<"/", "/">> \o parts.netloc \o
                     (IF url0 # <<>> /\ url0[1] # "/"
                      THEN <<"/">> \o url0 ELSE url0)
                ELSE url0
        url2 == IF parts.scheme # <<>>
                THEN parts.scheme \o <<":">> \o url1 ELSE url1
        url3 == IF parts.query # <<>>
                THEN url2 \o <<"?">> \o parts.query ELSE url2
    IN  IF parts.fragment # <<>>
        THEN url3 \o <<"#">> \o parts.fragment ELSE url3

is_ascii(string) == \A i \in 1..Len(string) : string[i] # "e_acute"

(* parts[1].encode('idna').decode('ascii') of a host without dots: the ACE
   prefix, the ASCII characters in their order, and the encoded tail *)
idna(host) ==
    <<"xn--">> \o SelectSeq(host, LAMBDA c : c # "e_acute") \o <<"9ca">>

(* quote(part.encode('utf-8')): '/' and letters are kept, every other
   character becomes its percent escape, the '%' of an escape included *)
quote_char(c) ==
    CASE c = "e_acute" -> "%C3%A9"
      [] c = " "       -> "%20"
      [] c = ":"       -> "%3A"
      [] c = "?"       -> "%3F"
      [] c = "#"       -> "%23"
      [] c = "%20"     -> "%2520"
      [] c = "%C3%A9"  -> "%25C3%25A9"
      [] c = "%3A"     -> "%253A"
      [] c = "%3F"     -> "%253F"
      [] c = "%23"     -> "%2523"
      [] OTHER         -> c

quote(part) == [i \in 1..Len(part) |-> quote_char(part[i])]

(* the loop over the parts: IDNA for part 1, quote for the others *)
escape_parts(parts) ==
    [scheme   |-> IF is_ascii(parts.scheme) THEN parts.scheme
                  ELSE quote(parts.scheme),
     netloc   |-> IF is_ascii(parts.netloc) THEN parts.netloc
                  ELSE idna(parts.netloc),
     path     |-> IF is_ascii(parts.path) THEN parts.path
                  ELSE quote(parts.path),
     params   |-> IF is_ascii(parts.params) THEN parts.params
                  ELSE quote(parts.params),
     query    |-> IF is_ascii(parts.query) THEN parts.query
                  ELSE quote(parts.query),
     fragment |-> IF is_ascii(parts.fragment) THEN parts.fragment
                  ELSE quote(parts.fragment)]

sanitize_url(url) ==
    urlunparse(escape_parts(urlparse(
        escape_spaces(fix_single_slash(add_protocol(url))))))

(* every string of at most n characters of the model *)
RECURSIVE UrlsUpTo(_)
UrlsUpTo(n) ==
    IF n = 0 THEN {<<>>}
    ELSE LET shorter == UrlsUpTo(n - 1)
         IN  shorter \cup {Append(u, c) : u \in shorter, c \in UrlChars}

(* every variable but fcall as the import of the module leaves it *)
NoFetch ==
    /\ cache = <<>>
    /\ CACHE_SIZE = 1000
    /\ private_cache = FALSE
    /\ now = 0
    /\ ticks = 0
    /\ calls = 0
    /\ sets = <<>>
    /\ Idle
    /\ threads = NoThreads

OnlyCall ==
    UNCHANGED <<cache, CACHE_SIZE, private_cache, threads, now, ticks, calls,
                sets, force_min, pc, idx, req, resp, origin, net304, result>>

InitSanitize ==
    /\ NoFetch
    /\ \E url \in UrlsUpTo(MaxUrlLen) :
          fcall = [fn |-> "sanitize_url", arg |-> url, ret |-> <<>>]

(* url = sanitize_url(url): the function is applied to the caller's string,
   then to what it returned *)
sanitize_url_call ==
    /\ fcall.fn = "sanitize_url"
    /\ Len(fcall.ret) < 2
    /\ fcall' = [fcall EXCEPT !.ret =
                    Append(@, sanitize_url(IF fcall.ret = <<>>
                                           THEN fcall.arg
                                           ELSE fcall.ret[Len(fcall.ret)]))]
    /\ OnlyCall

NextSanitize == sanitize_url_call

SpecSanitize == InitSanitize /\ [][NextSanitize]_vars

-----------------------------------------------------------------------------
(* C17 *)

(* C17 as stated: sanitize_url applied to its own result returns that
   result *)
C17_Original ==
    (fcall.fn = "sanitize_url" /\ Len(fcall.ret) = 2)
        => fcall.ret[2] = fcall.ret[1]

(* "http:/" followed by a non-ASCII host: repaired and encoded by the first
   application, left alone by the second *)
C17_Witness ==
    /\ fcall.fn = "sanitize_url"
    /\ fcall.arg = <<"http", ":", "/", "e_acute">>
    /\ Len(fcall.ret) = 2
    /\ fcall.ret[1] = <<"http", ":", "/", "/", "xn--", "9ca">>
    /\ fcall.ret[2] = fcall.ret[1]

-----------------------------------------------------------------------------
(* detect_encoding.  The bytes are described by what the function looks for  *)
(* in them: the first "charset=" and the first "encoding=" declaration (the  *)
(* label as written and the offset where it starts) and the label chardet    *)
(* gives for them.                                                           *)

HeadBytes == 1000

(* labels as they are written in headers and bodies *)
Labels == {"gb2312", "GB2312", "UTF-8", "koi8-r"}

(* str.lower / bytes.lower on the labels of the model *)
Lower(label) ==
    CASE label = "GB2312" -> "gb2312"
      [] label = "UTF-8"  -> "utf-8"
      [] OTHER            -> label

(* parse_header(value)[1].get('charset') on the Content-Type values of the
   model *)
parse_header_charset(value) ==
    CASE value = "text/html; charset=gb2312" -> "gb2312"
      [] value = "text/html; charset=GB2312" -> "GB2312"
      [] value = "text/html; charset=UTF-8"  -> "UTF-8"
      [] value = "text/html; charset=koi8-r" -> "koi8-r"
      [] OTHER                               -> NoValue

ContentTypes ==
    {"text/html", "text/html; charset=gb2312", "text/html; charset=GB2312",
     "text/html; charset=UTF-8", "text/html; charset=koi8-r"}

(* re.search(pattern, data[:1000]): the label of the first declaration, if
   it lies in the first 1000 bytes *)
re_search(declaration) ==
    IF declaration.label # NoValue /\ declaration.at < HeadBytes
    THEN declaration.label
    ELSE NoValue

(* chardet.detect(data[-2000:])['encoding']: None, or a label *)
ChardetGuesses == {NoValue, "ascii", "GB2312", "windows-1252"}

detect_raw_encoding_EncodingFirst(data, response) ==
    LET header == IF ~response.given THEN NoValue
                  ELSE HGet(response.headers, "charset", NoValue)
        param  == IF ~response.given THEN NoValue
                  ELSE parse_header_charset(
                           HGet(response.headers, "content-type", ""))
    IN  IF header # NoValue THEN header
        ELSE IF param # NoValue THEN param
        ELSE IF re_search(data.encoding) # NoValue
             THEN Lower(re_search(data.encoding))
        ELSE IF re_search(data.charset) # NoValue
             THEN Lower(re_search(data.charset))
        ELSE IF data.chardet # NoValue /\ data.chardet # "ascii"
             THEN data.chardet
        ELSE "utf-8"

detect_raw_encoding(data, response) ==
    LET header == IF ~response.given THEN NoValue
                  ELSE HGet(response.headers, "charset", NoValue)
        param  == IF ~response.given THEN NoValue
                  ELSE parse_header_charset(
                           HGet(response.headers, "content-type", ""))
    IN  IF header # NoValue THEN header
        ELSE IF param # NoValue THEN param
        ELSE IF re_search(data.charset) # NoValue
             THEN Lower(re_search(data.charset))
        ELSE IF re_search(data.encoding) # NoValue
             THEN Lower(re_search(data.encoding))
        ELSE IF data.chardet # NoValue /\ data.chardet # "ascii"
             THEN data.chardet
        ELSE "utf-8"

detect_encoding(data, response) ==
    LET enc == detect_raw_encoding(data, response)
    IN  IF Lower(enc) = "gb2312" THEN "gbk" ELSE enc

(* a declaration in the body, inside or past the first 1000 bytes *)
NoDeclaration == [label |-> NoValue, at |-> 0]

Declarations ==
    {NoDeclaration} \cup [label : Labels, at : {0, HeadBytes}]

Bodies ==
    [charset : Declarations, encoding : Declarations,
     chardet : ChardetGuesses]

(* resp=None, or a response with or without a charset header and with or
   without a charset parameter in its Content-Type *)
EncodingResponses ==
    {[given |-> FALSE, headers |-> NoHeaders]} \cup
    {[given |-> TRUE, headers |-> << <<"content-type", ct>> >>] :
        ct \in ContentTypes} \cup
    {[given |-> TRUE,
      headers |-> << <<"content-type", ct>>, <<"charset", c>> >>] :
        ct \in ContentTypes, c \in Labels}

InitEncoding ==
    /\ NoFetch
    /\ \E data \in Bodies, r \in EncodingResponses :
          fcall = [fn |-> "detect_encoding", arg |-> <<data, r>>,
                   ret |-> <<>>]

(* enc = detect_encoding(data, resp) *)
detect_encoding_call ==
    /\ fcall.fn = "detect_encoding"
    /\ fcall.ret = <<>>
    /\ fcall' = [fcall EXCEPT !.ret =
                    <<detect_encoding(fcall.arg[1], fcall.arg[2])>>]
    /\ OnlyCall

NextEncoding == detect_encoding_call

SpecEncoding == InitEncoding /\ [][NextEncoding]_vars

-----------------------------------------------------------------------------
(* C18 *)

(* the label each step of the waterfall finds, as it is written where the
   step looks; NoValue when the step has no hit *)
C18_Found(data, r) ==
    << IF ~r.given THEN NoValue ELSE HGet(r.headers, "charset", NoValue),
       IF ~r.given THEN NoValue
       ELSE parse_header_charset(HGet(r.headers, "content-type", "")),
       re_search(data.charset),
       re_search(data.encoding),
       IF data.chardet = "ascii" THEN NoValue ELSE data.chardet,
       "utf-8" >>

C18_FirstStep(data, r) ==
    CHOOSE k \in 1..6 :
        /\ C18_Found(data, r)[k] # NoValue
        /\ \A j \in 1..(k-1) : C18_Found(data, r)[j] = NoValue

C18_PostCorrection(label) == IF Lower(label) = "gb2312" THEN "gbk" ELSE label

C18_Returned == fcall.fn = "detect_encoding" /\ fcall.ret # <<>>

(* C18 as stated: the result is the first hit of the six steps, gbk when
   that hit is gb2312 in any letter case, and the hit unchanged otherwise *)
C18_Original ==
    C18_Returned =>
        LET data == fcall.arg[1]
            r    == fcall.arg[2]
            hit  == C18_Found(data, r)[C18_FirstStep(data, r)]
        IN  fcall.ret[1] = C18_PostCorrection(hit)

(* C18 amended: the result is the first hit of the six steps, a label found
   in the body (steps 3 and 4) taken in lower case, and gbk when that is
   gb2312 in any letter case *)
C18_Waterfall ==
    C18_Returned =>
        LET data == fcall.arg[1]
            r    == fcall.arg[2]
            k    == C18_FirstStep(data, r)
            hit  == C18_Found(data, r)[k]
            label == IF k \in {3, 4} THEN Lower(hit) ELSE hit
        IN  fcall.ret[1] = C18_PostCorrection(label)

(* no header names a charset, the body declares encoding="koi8-r" before
   charset=UTF-8, and the charset declaration wins, in lower case *)
C18_Witness ==
    /\ C18_Returned
    /\ fcall.arg[2].given
    /\ C18_FirstStep(fcall.arg[1], fcall.arg[2]) = 3
    /\ fcall.arg[1].charset = [label |-> "UTF-8", at |-> 0]
    /\ fcall.arg[1].encoding = [label |-> "koi8-r", at |-> 0]
    /\ fcall.ret[1] = "utf-8"

-----------------------------------------------------------------------------
(* C20 *)

(* the place of a handler in the list add_handler receives *)
InsertionIndex(h) == CHOOSE i \in 1..Len(Handlers) : Handlers[i].name = h

(* handler a runs before handler b: a lower order, or the same order and
   inserted earlier *)
Before(a, b) ==
    \/ handler_order(a) < handler_order(b)
    \/ /\ handler_order(a) = handler_order(b)
       /\ InsertionIndex(a) < InsertionIndex(b)

(* one response hook has run and the next is about to *)
NextResponseHook == pc = "response" /\ pc' = "response" /\ idx' # idx

NextRequestHook == pc = "request" /\ pc' = "request" /\ idx' # idx

(* C20 as stated: request hooks run in ascending handler order, ties in
   insertion order, and response hooks run in the reverse of that order, a
   lower handler order seeing the response later *)
C20_Original ==
    [][/\ NextRequestHook =>
            Before(process_request[idx], process_request[idx'])
       /\ NextResponseHook =>
            Before(process_response[idx'], process_response[idx])]_vars

(* C20 amended: request hooks and response hooks both run in ascending
   handler order, ties in insertion order, every handler that has the hook
   running once in a pass *)
C20_AscendingBothWays ==
    [][/\ NextRequestHook =>
            /\ idx' = idx + 1
            /\ Before(process_request[idx], process_request[idx'])
       /\ NextResponseHook =>
            /\ idx' = idx + 1
            /\ Before(process_response[idx], process_response[idx'])
       /\ pc = "response" =>
            /\ idx \in 1..Len(process_response)
            /\ \A n \in 1..Len(Handlers) :
                  "response" \in Handlers[n].hooks =>
                      Cardinality({i \in 1..Len(process_response) :
                          process_response[i] = Handlers[n].name}) = 1
       /\ pc = "request" =>
            /\ idx \in 1..Len(process_request)
            /\ \A n \in 1..Len(Handlers) :
                  "request" \in Handlers[n].hooks =>
                      Cardinality({i \in 1..Len(process_request) :
                          process_request[i] = Handlers[n].name}) = 1]_vars

(* a response from the network has passed the size limit (450), the cache
   (499) and gzip (500) hooks and is at EncodingFixHandler, which has
   gzip's order and was inserted after it *)
C20_Witness ==
    /\ pc = "response"
    /\ origin = "net"
    /\ req.ae = "gzip"
    /\ idx = 4
    /\ process_response[1] = "SizeLimitHandler"
    /\ process_response[2] = "CacheHandler"
    /\ process_response[3] = "GZIPHandler"
    /\ process_response[idx] = "EncodingFixHandler"
    /\ HasRecord(req.url)

-----------------------------------------------------------------------------
(* The fetch pipeline against a site that answers with a feed, with a feed  *)
(* that carries a Morss header of the server's own, with a redirect, or     *)
(* with 304                                                                 *)

MarkedPages == {Feed, MorssOther, Moved, NotModified}

NextMarked ==
    \/ \E url \in URLs, fm \in ForceMins : adv_get(url, fm)
    \/ \E d \in Deltas : Tick(d)
    \/ CacheHandler_http_request
    \/ GZIPHandler_http_request
    \/ CacheHandler_http_open
    \/ \E page \in MarkedPages : HTTPHandler_http_open(page)
    \/ HTTPHandler_URLError
    \/ SizeLimitHandler_http_response
    \/ CacheHandler_http_response
    \/ GZIPHandler_http_response
    \/ EncodingFixHandler_http_response
    \/ HTTPEquivHandler_http_response
    \/ HTTPRefreshHandler_http_response
    \/ HTTPErrorProcessor_http_response
    \/ CacheHandler_http_error_304
    \/ HTTPRedirectHandler_http_error_302
    \/ HTTPDefaultErrorHandler_http_error_default

SpecMarked == Init /\ [][NextMarked]_vars

-----------------------------------------------------------------------------
(* C21 *)

(* the 304 handler runs for a URL that has a record *)
Handles304 ==
    /\ pc = "error"
    /\ resp.code = Some(304)
    /\ HasRecord(req.url)

(* a step of the pass replayed by the 304 handler *)
ReplayStep == req.morss = "from_304" /\ req' = req

(* C21 as stated: handling a 304 for a URL with a record sets that record's
   timestamp to the current time and leaves its code, message, headers and
   body as they were, touches no other URL's record, and the replayed pass
   does not write the record again *)
C21_Original ==
    [][/\ Handles304 =>
            /\ load(cache', req.url) =
                   [load(cache, req.url) EXCEPT !.timestamp = now]
            /\ \A url \in URLs \ {req.url} :
                   load(cache', url) = load(cache, url)
       /\ ReplayStep => cache' = cache]_vars

(* a 304 for a stored feed has been handled: the record carries the current
   time, which is later than when it was stored, and the replay has ended *)
C21_Witness ==
    /\ pc = "done"
    /\ net304
    /\ req.morss = "from_304"
    /\ result.kind = "ok"
    /\ now > 0
    /\ Stored(req.url).timestamp = now
    /\ Stored(req.url).headers = Feed.headers
    /\ Stored(req.url).data = Feed.data

-----------------------------------------------------------------------------
(* The fetch pipeline against one origin server whose two URLs redirect to  *)
(* each other with 301 and an ETag, and which answers 304 to a request      *)
(* whose If-None-Match carries that ETag.  Every step of a call in flight   *)
(* is taken in the end: the interpreter keeps running the call.             *)

Circular(url) ==
    [code |-> 301, msg |-> "Moved Permanently",
     headers |-> << <<"location", IF url = "u1" THEN "u2" ELSE "u1">>,
                    <<"etag", "abc">> >>,
     data |-> EmptyBody]

CircularServer(r) ==
    IF r.inm = "abc" THEN NotModified ELSE Circular(r.url)

NextCircular ==
    \/ \E url \in URLs, fm \in ForceMins : adv_get(url, fm)
    \/ \E d \in Deltas : Tick(d)
    \/ CacheHandler_http_request
    \/ GZIPHandler_http_request
    \/ CacheHandler_http_open
    \/ HTTPHandler_http_open(CircularServer(req))
    \/ HTTPHandler_URLError
    \/ SizeLimitHandler_http_response
    \/ CacheHandler_http_response
    \/ GZIPHandler_http_response
    \/ EncodingFixHandler_http_response
    \/ HTTPEquivHandler_http_response
    \/ HTTPRefreshHandler_http_response
    \/ HTTPErrorProcessor_http_response
    \/ CacheHandler_http_error_304
    \/ HTTPRedirectHandler_http_error_302
    \/ HTTPDefaultErrorHandler_http_error_default

SpecCircular == Init /\ [][NextCircular]_vars /\ WF_vars(NextCircular)

-----------------------------------------------------------------------------
(* C22 *)

(* the request replayed by the 304 handler is past the request hooks *)
ReplayOpened == req.morss = "from_304" /\ pc \in {"open", "response"}

(* the replayed request is answered by the open hook of the cache, the
   first of the open chain, and never by the network *)
ReplayShortCircuits ==
    ReplayOpened =>
        /\ handle_open[1] = "CacheHandler"
        /\ pc = "open" => idx = 1
        /\ pc = "response" => origin = "cache"

(* C22 as stated: the request marked from_304 always short-circuits at the
   open hook of the cache and never reaches the network, and every call
   that is in flight ends *)
C22_Original ==
    /\ []ReplayShortCircuits
    /\ (pc = "request") ~> (pc = "done")

(* a replay after a 304 has been answered from the cache although force_min
   is 0 *)
C22_Witness ==
    /\ pc = "response"
    /\ req.morss = "from_304"
    /\ force_min = Some(0)
    /\ net304
    /\ origin = "cache"
    /\ resp.code = Some(301)

-----------------------------------------------------------------------------
(* C23 *)

(* C23: no stored record has status code 304, and no response built from
   the cache, by a cache hit or by the replay after a 304, has it *)
C23_No304Stored ==
    /\ \A rec \in Records : rec.code # Some(304)
    /\ (pc = "response" /\ origin = "cache") => resp.code # Some(304)

(* a 304 from the network for a URL that has a record has passed the
   response hook of the cache *)
C23_Witness ==
    /\ pc = "response"
    /\ origin = "net"
    /\ resp.code = Some(304)
    /\ idx > 1
    /\ process_response[idx - 1] = "CacheHandler"
    /\ HasRecord(req.url)
    /\ Stored(req.url).code = Some(200)

-----------------------------------------------------------------------------
(* One call of the fetch pipeline on a server where the janitor and a       *)
(* second request thread work on the same default_cache: between any two    *)
(* steps of the call the janitor may take a step of its trim and thread B a *)
(* step of its load and save.  The site answers with a feed or with 304;    *)
(* the clock stands still, the calls following each other at once.          *)

InterleavedPages == {Feed, NotModified}

NextInterleaved ==
    \/ \E url \in URLs, fm \in ForceMins : adv_get(url, fm)
    \/ CacheHandler_http_request
    \/ GZIPHandler_http_request
    \/ CacheHandler_http_open
    \/ \E page \in InterleavedPages : HTTPHandler_http_open(page)
    \/ HTTPHandler_URLError
    \/ SizeLimitHandler_http_response
    \/ CacheHandler_http_response
    \/ GZIPHandler_http_response
    \/ EncodingFixHandler_http_response
    \/ HTTPEquivHandler_http_response
    \/ HTTPRefreshHandler_http_response
    \/ HTTPErrorProcessor_http_response
    \/ CacheHandler_http_error_304
    \/ HTTPDefaultErrorHandler_http_error_default
    \/ \E url \in URLs : thread_request("B", url)
    \/ thread_load("B")
    \/ thread_setitem_contains("B")
    \/ thread_setitem_del("B")
    \/ thread_setitem_insert("B")
    \/ janitor_trim_range
    \/ janitor_trim_popitem
    \/ janitor_arm_timer
    \/ janitor_timer_expires

SpecInterleaved == InitThreads /\ [][NextInterleaved]_vars

-----------------------------------------------------------------------------
(* C24 *)

(* the open hook of the cache answers the request from the cache *)
CacheAnswers == AtCacheOpen /\ pc' = "response" /\ origin' = "cache"

(* C24 as stated: a response the open hook builds from the cache carries
   the status code and body of a record that exists for the URL, never a
   null status, whatever steps of the janitor and of other threads come
   between the steps of the request *)
C24_Original ==
    [][CacheAnswers =>
          /\ HasRecord(req.url)
          /\ resp'.code.some
          /\ resp'.code = Stored(req.url).code
          /\ resp'.data = Stored(req.url).data]_vars

(* a replay after a 304 has been answered with the stored feed while the
   janitor was in the middle of a trim *)
C24_Witness ==
    /\ pc = "response"
    /\ idx = 1
    /\ origin = "cache"
    /\ req.morss = "from_304"
    /\ threads["janitor"].pc = "popitem"
    /\ HasRecord(req.url)
    /\ resp.code = Some(200)
    /\ resp.data = Feed.data

====
